---- MODULE Spec2Model ----
(***************************************************************************)
(* A model of the UM-32 interpreter of sphynx/um: the segmented store Mem  *)
(* (src/src/mem.rs) and the fetch-decode-execute loop of Machine::run      *)
(* (src/src/main.rs).                                                      *)
(*                                                                         *)
(* Words are unsigned integers of WordBits bits. The program's width is    *)
(* 32; the model keeps the layout of an instruction word (the operator     *)
(* code in the top four bits, the three register selectors in bits 8..0,   *)
(* the immediate of Op::Mov in the bits below its register selector) and   *)
(* scales the width, so that every word value stays inside the integers    *)
(* the model checker can hold and an array as long as the whole offset     *)
(* range can be written down.                                              *)
(***************************************************************************)
EXTENDS Integers, Sequences, FiniteSets, Bags, TLC

VARIABLES data, free_pq, reg, ip, input, stdin, stdout, state, err, call, dirty,
          steps

vars == <<data, free_pq, reg, ip, input, stdin, stdout, state, err, call, dirty,
          steps>>

(***************************************************************************)
(* Bounds of the model.                                                    *)
(***************************************************************************)
\* width of a word in bits (u32 in the program)
WordBits == 13
\* the harness of Mem never lets len() grow past MaxIds
MaxIds == 3
\* largest size the harness passes to alloc, largest length of init's program
MaxSize == 1

\* longest program built from the instruction vocabulary
MaxProg == 2
\* most bytes the machine reads from stdin in one run
MaxStdin == 2
\* most iterations of the loop of Machine::run in one run
MaxSteps == 8

RECURSIVE Pow2(_)
Pow2(n) == IF n = 0 THEN 1 ELSE 2 * Pow2(n - 1)

WordMod == Pow2(WordBits)
\* std::u32::MAX
U32_MAX == WordMod - 1
Word == 0 .. U32_MAX

(***************************************************************************)
(* Panic messages (the number that the program formats into a message is   *)
(* the argument of the call, kept in call).                                *)
(***************************************************************************)
NoErr == "none"
ErrCopyFreed == "copy_to_zero: attempt to copy from freed address"
ErrCopyUnalloc == "copy_to_zero: attempt to copy from unallocated address"
ErrAllocExhausted == "alloc: memory exhausted"
ErrFreeProgram == "free: tried to free memory at program location (0)"
ErrFreeAlready == "free: attempt to free address which is already free"
ErrFreeUnalloc == "free: attempt to free unallocated address"
ErrReadBounds == "read: offset is out of bounds for address"
ErrReadDealloc == "read: address has been deallocated"
ErrReadUnalloc == "read: address has not been allocated"
ErrWriteBounds == "write: offset is out of bounds for address"
ErrWriteDealloc == "write: address has been deallocated"
ErrWriteUnalloc == "write: address has not been allocated"
ErrIndex == "index out of bounds"
ErrDivZero == "vm: division by zero!"
ErrOutput == "vm: character for output > 255"
ErrOpCode == "vm: unexpected op code"
ErrAddOverflow == "attempt to add with overflow"
ErrUtf8 == "read_line: stream did not contain valid UTF-8"

(***************************************************************************)
(* Mem: data is Vec<Option<Box<[u32]>>>, the array of ID i is data[i + 1]; *)
(* free_pq is BinaryHeap<Reverse<u32>>, a bag of IDs.                      *)
(*                                                                         *)
(* A Box<[u32]> is written as its length len and its non-zero words nz, a  *)
(* function from their offsets: the word at an offset below len that nz    *)
(* does not hold is 0. Two boxes are equal exactly when they have the same *)
(* length and the same words.                                              *)
(***************************************************************************)
\* Vec::with_capacity(size) in place of vec![0; size]: room for size words, none in it
ZeroVecWithCapacity(size) == [len |-> 0, nz |-> [o \in {} |-> 0]]

\* vec![0; size].into_boxed_slice()
ZeroVec(size) == [len |-> size, nz |-> [o \in {} |-> 0]]

\* Vec<u32>::into_boxed_slice: the box of the words of the sequence vec
into_boxed_slice(vec) ==
    [len |-> Len(vec),
     nz |-> [o \in {i - 1 : i \in {j \in 1 .. Len(vec) : vec[j] # 0}} |-> vec[o + 1]]]

\* v[offset] for an offset below v.len
WordAt(v, offset) == IF offset \in DOMAIN v.nz THEN v.nz[offset] ELSE 0

\* v.fill(val) in place of v[offset] = val: every word of the box becomes val
SetWordFill(v, offset, val) ==
    [len |-> v.len, nz |-> [o \in IF val = 0 THEN {} ELSE 0 .. v.len - 1 |-> val]]

\* v[offset] = val for an offset below v.len
SetWord(v, offset, val) ==
    [len |-> v.len,
     nz |-> [o \in IF val = 0 THEN DOMAIN v.nz \ {offset} ELSE DOMAIN v.nz \cup {offset} |->
                IF o = offset THEN val ELSE v.nz[o]]]

None == [some |-> FALSE, v |-> ZeroVec(0)]
Some(v) == [some |-> TRUE, v |-> v]

\* a new box of the same length whose words are never copied
BoxCloneZeroed(v) == ZeroVec(v.len)

\* Box<[u32]>::clone: a new box with the same words
BoxClone(v) == [len |-> v.len, nz |-> [o \in DOMAIN v.nz |-> WordAt(v, o)]]

PqIsEmpty(pq) == BagToSet(pq) = {}

PqPush(pq, addr) == pq (+) SetToBag({addr})

\* a heap of u32 in place of Reverse<u32>: the greatest address comes first
PqPeekGreatest(pq) == CHOOSE x \in BagToSet(pq) : \A y \in BagToSet(pq) : x >= y

\* the greatest element of the heap is the Reverse of the smallest address
PqPeek(pq) == CHOOSE x \in BagToSet(pq) : \A y \in BagToSet(pq) : x <= y

\* peek in place of pop: the address stays in the heap
PqPopKeep(pq) == [addr |-> PqPeek(pq), rest |-> pq]

PqPop(pq) == [addr |-> PqPeek(pq), rest |-> pq (-) SetToBag({PqPeek(pq)})]

\* what a method leaves behind: the store, the returned value, the panic if any
Ok(d, pq, ret) == [data |-> d, free_pq |-> pq, ret |-> ret, err |-> NoErr]
Panic(m, msg) == [data |-> m.data, free_pq |-> m.free_pq, ret |-> 0, err |-> msg]

new == [data |-> <<>>, free_pq |-> EmptyBag]

init(prog) == [data |-> <<Some(into_boxed_slice(prog))>>, free_pq |-> EmptyBag]

len(m) == Len(m.data) % WordMod

\* copy_to_zero that moves the array out of its slot (take) in place of cloning it
CopyToZeroTake(m, addr) ==
    IF addr >= Len(m.data) THEN Panic(m, ErrCopyUnalloc)
    ELSE IF ~m.data[addr + 1].some THEN Panic(m, ErrCopyFreed)
    ELSE Ok([[m.data EXCEPT ![addr + 1] = None] EXCEPT ![1] = m.data[addr + 1]],
            m.free_pq, 0)

copy_to_zero(m, addr) ==
    IF addr >= Len(m.data) THEN Panic(m, ErrCopyUnalloc)
    ELSE IF ~m.data[addr + 1].some THEN Panic(m, ErrCopyFreed)
    ELSE Ok([m.data EXCEPT ![1] = Some(BoxClone(m.data[addr + 1].v))], m.free_pq, 0)

alloc(m, size) ==
    IF ~PqIsEmpty(m.free_pq)
    THEN LET p == PqPop(m.free_pq) IN
         IF p.addr >= Len(m.data) THEN Panic([m EXCEPT !.free_pq = p.rest], ErrIndex)
         ELSE Ok([m.data EXCEPT ![p.addr + 1] = Some(ZeroVec(size))], p.rest, p.addr)
    ELSE IF len(m) = U32_MAX THEN Panic(m, ErrAllocExhausted)
    ELSE LET d == Append(m.data, Some(ZeroVec(size))) IN
         Ok(d, m.free_pq, (Len(d) % WordMod) - 1)

\* free without its test of addr == 0
FreeUnguarded(m, addr) ==
    IF addr >= Len(m.data) THEN Panic(m, ErrFreeUnalloc)
    ELSE IF ~m.data[addr + 1].some THEN Panic(m, ErrFreeAlready)
    ELSE Ok([m.data EXCEPT ![addr + 1] = None], PqPush(m.free_pq, addr), 0)

free(m, addr) ==
    IF addr = 0 THEN Panic(m, ErrFreeProgram)
    ELSE IF addr >= Len(m.data) THEN Panic(m, ErrFreeUnalloc)
    ELSE IF ~m.data[addr + 1].some THEN Panic(m, ErrFreeAlready)
    ELSE Ok([m.data EXCEPT ![addr + 1] = None], PqPush(m.free_pq, addr), 0)

\* get_mut(addr).unwrap_or_else(panic), then None panics and any other block is
\* set to None and its address pushed: no test of addr == 0
free2(m, addr) ==
    IF addr >= Len(m.data) THEN Panic(m, ErrFreeUnalloc)
    ELSE IF ~m.data[addr + 1].some THEN Panic(m, ErrFreeAlready)
    ELSE Ok([m.data EXCEPT ![addr + 1] = None], PqPush(m.free_pq, addr), 0)

\* read whose test of the offset is off by one: the word past the end reads as 0
ReadOffByOne(m, addr, offset) ==
    IF addr >= Len(m.data) THEN Panic(m, ErrReadUnalloc)
    ELSE IF ~m.data[addr + 1].some THEN Panic(m, ErrReadDealloc)
    ELSE IF offset > m.data[addr + 1].v.len THEN Panic(m, ErrReadBounds)
    ELSE IF offset = m.data[addr + 1].v.len THEN Ok(m.data, m.free_pq, 0)
    ELSE Ok(m.data, m.free_pq, WordAt(m.data[addr + 1].v, offset))

read(m, addr, offset) ==
    IF addr >= Len(m.data) THEN Panic(m, ErrReadUnalloc)
    ELSE IF ~m.data[addr + 1].some THEN Panic(m, ErrReadDealloc)
    ELSE IF offset >= m.data[addr + 1].v.len THEN Panic(m, ErrReadBounds)
    ELSE Ok(m.data, m.free_pq, WordAt(m.data[addr + 1].v, offset))

\* get(addr).unwrap_or_else(panic).as_ref().unwrap_or_else(panic), then
\* block.get(offset).unwrap_or_else(panic)
read2(m, addr, offset) ==
    IF addr >= Len(m.data) THEN Panic(m, ErrReadUnalloc)
    ELSE IF ~m.data[addr + 1].some THEN Panic(m, ErrReadDealloc)
    ELSE IF offset < m.data[addr + 1].v.len
    THEN Ok(m.data, m.free_pq, WordAt(m.data[addr + 1].v, offset))
    ELSE Panic(m, ErrReadBounds)

write(m, addr, offset, val) ==
    IF addr >= Len(m.data) THEN Panic(m, ErrWriteUnalloc)
    ELSE IF ~m.data[addr + 1].some THEN Panic(m, ErrWriteDealloc)
    ELSE IF offset < m.data[addr + 1].v.len
    THEN Ok([m.data EXCEPT ![addr + 1] = Some(SetWord(m.data[addr + 1].v, offset, val))],
            m.free_pq, 0)
    ELSE Panic(m, ErrWriteBounds)

\* get_mut(addr).unwrap_or_else(panic).as_mut().unwrap_or_else(panic), then the
\* same test of the offset as write
write2(m, addr, offset, val) ==
    IF addr >= Len(m.data) THEN Panic(m, ErrWriteUnalloc)
    ELSE IF ~m.data[addr + 1].some THEN Panic(m, ErrWriteDealloc)
    ELSE IF offset < m.data[addr + 1].v.len
    THEN Ok([m.data EXCEPT ![addr + 1] = Some(SetWord(m.data[addr + 1].v, offset, val))],
            m.free_pq, 0)
    ELSE Panic(m, ErrWriteBounds)

(***************************************************************************)
(* The callers of Mem: Machine::run and the tests of mem.rs. A panic ends  *)
(* the caller: state becomes "Faulted" and err holds the message.          *)
(***************************************************************************)
Mem == [data |-> data, free_pq |-> free_pq]

StateAfter(r) == IF r.err = NoErr THEN "Running" ELSE "Faulted"

\* words the tests write: zero and a non-zero word
Vals == {0, U32_MAX}

\* the sequences over S of length n
SeqsOf(S, n) == [1 .. n -> S]

Progs == UNION {SeqsOf(Vals, n) : n \in 0 .. MaxSize}

HasNonZero(v) == DOMAIN v.nz # {}

MachineIdle ==
    /\ reg = [r \in 0 .. 7 |-> 0]
    /\ ip = 0
    /\ input = <<>>
    /\ stdin = <<>>
    /\ stdout = <<>>
    /\ steps = 0

\* a test starts from Mem::new() or Mem::init(prog)
InitMem ==
    /\ \E m \in {new} \cup {init(p) : p \in Progs} :
          /\ data = m.data
          /\ free_pq = m.free_pq
          /\ call = [op |-> IF m = new THEN "new" ELSE "init",
                     addr |-> 0, offset |-> 0, val |-> 0, ret |-> 0]
    /\ state = "Running"
    /\ err = NoErr
    /\ dirty = {}
    /\ MachineIdle

\* the retired IDs of store d
Retired(d) == {a \in 0 .. Len(d) - 1 : ~d[a + 1].some}

\* dirty: the retired IDs whose array held a non-zero word when it was freed,
\* and the ID the last call allocated if it was one of them
DirtyAfter(r, c) ==
    IF r.err # NoErr THEN dirty
    ELSE IF c.op = "free" /\ HasNonZero(data[c.addr + 1].v)
    THEN (dirty \cap Retired(r.data)) \cup {c.addr}
    ELSE IF c.op = "alloc" THEN dirty \cap (Retired(r.data) \cup {r.ret})
    ELSE dirty \cap Retired(r.data)

\* the call c made and its result r
Return(r, c) ==
    /\ data' = r.data
    /\ free_pq' = r.free_pq
    /\ err' = r.err
    /\ state' = StateAfter(r)
    /\ call' = [c EXCEPT !.ret = r.ret]
    /\ dirty' = DirtyAfter(r, c)
    /\ UNCHANGED <<reg, ip, input, stdin, stdout, steps>>

Args(op, addr, offset, val) ==
    [op |-> op, addr |-> addr, offset |-> offset, val |-> val, ret |-> 0]

Addrs == 0 .. MaxIds
Offsets == 0 .. MaxSize
Sizes == 0 .. MaxSize

CallAlloc ==
    /\ state = "Running"
    /\ \E size \in Sizes :
          /\ ~PqIsEmpty(free_pq) \/ Len(data) < MaxIds
          /\ Return(alloc(Mem, size), Args("alloc", 0, 0, size))

CallFree ==
    /\ state = "Running"
    /\ \E addr \in Addrs : Return(free(Mem, addr), Args("free", addr, 0, 0))

CallRead ==
    /\ state = "Running"
    /\ \E addr \in Addrs, offset \in Offsets :
          Return(read(Mem, addr, offset), Args("read", addr, offset, 0))

CallWrite ==
    /\ state = "Running"
    /\ \E addr \in Addrs, offset \in Offsets, val \in Vals :
          Return(write(Mem, addr, offset, val), Args("write", addr, offset, val))

CallCopyToZero ==
    /\ state = "Running"
    /\ \E addr \in Addrs :
          Return(copy_to_zero(Mem, addr), Args("copy_to_zero", addr, 0, 0))

NextMem == CallAlloc \/ CallFree \/ CallRead \/ CallWrite \/ CallCopyToZero

SpecMem == InitMem /\ [][NextMem]_vars

\* the calls on a store made by Mem::init
InitFromProg == InitMem /\ data # <<>>
SpecMemInit == InitFromProg /\ [][NextMem]_vars

\* the calls on a store made by Mem::new
InitFromNew == InitMem /\ data = <<>>
SpecMemNew == InitFromNew /\ [][NextMem]_vars

(***************************************************************************)
(* The calls of a test on arrays of several words (tests::write_and_read   *)
(* has one of 10): the store is made by init from a program of MaxCells    *)
(* words, with or without one array of MaxCells words allocated after it.  *)
(***************************************************************************)
MaxCells == MaxSize + 2

CellOffsets == 0 .. MaxCells

InitCells ==
    /\ \E p \in SeqsOf(Vals, MaxCells), allocated \in BOOLEAN :
          LET m == IF allocated THEN alloc(init(p), MaxCells) ELSE init(p) IN
          /\ data = m.data
          /\ free_pq = m.free_pq
          /\ call = IF allocated THEN [Args("alloc", 0, 0, MaxCells) EXCEPT !.ret = m.ret]
                    ELSE Args("init", 0, 0, 0)
    /\ state = "Running"
    /\ err = NoErr
    /\ dirty = {}
    /\ MachineIdle

ReadCell ==
    /\ state = "Running"
    /\ \E addr \in Addrs, offset \in CellOffsets :
          Return(read(Mem, addr, offset), Args("read", addr, offset, 0))

WriteCell ==
    /\ state = "Running"
    /\ \E addr \in Addrs, offset \in CellOffsets, val \in Vals :
          Return(write(Mem, addr, offset, val), Args("write", addr, offset, val))

FreeCells ==
    /\ state = "Running"
    /\ \E addr \in Addrs : Return(free(Mem, addr), Args("free", addr, 0, 0))

\* an alloc that takes the ID of the array freed
AllocCells ==
    /\ state = "Running"
    /\ ~PqIsEmpty(free_pq)
    /\ Return(alloc(Mem, MaxCells), Args("alloc", 0, 0, MaxCells))

NextCells == ReadCell \/ WriteCell \/ FreeCells \/ AllocCells

SpecMemCells == InitCells /\ [][NextCells]_vars

(***************************************************************************)
(* The calls of tests::fill_all_memory near the end of its loop: the store *)
(* is the one made by new and NearFull allocs of one word, and the calls   *)
(* are allocs and frees of the IDs at the top of the range.                *)
(***************************************************************************)
NearFull == U32_MAX - 2

TopAddrs == (NearFull - 2) .. U32_MAX

InitNearFull ==
    /\ data = [i \in 1 .. NearFull |-> Some(ZeroVec(1))]
    /\ free_pq = EmptyBag
    /\ call = [Args("alloc", 0, 0, 1) EXCEPT !.ret = NearFull - 1]
    /\ state = "Running"
    /\ err = NoErr
    /\ dirty = {}
    /\ MachineIdle

AllocTop ==
    /\ state = "Running"
    /\ \E size \in Sizes : Return(alloc(Mem, size), Args("alloc", 0, 0, size))

FreeTop ==
    /\ state = "Running"
    /\ \E addr \in TopAddrs : Return(free(Mem, addr), Args("free", addr, 0, 0))

NextFull == AllocTop \/ FreeTop

SpecMemFull == InitNearFull /\ [][NextFull]_vars

(***************************************************************************)
(* Op::parse. The operator code is the top four bits of the word (v >> 28  *)
(* of a 32-bit word), a, b, c are bits 8..6, 5..3, 2..0; Op::Mov has its   *)
(* register in the three bits below the code (v >> 25) and its value in    *)
(* the bits below those (v & 0x01FFFFFF).                                  *)
(***************************************************************************)
CodeShift == Pow2(WordBits - 4)
MovShift == Pow2(WordBits - 7)

OpNames == <<"CondMov", "MemRead", "MemWrite", "Add", "Mul", "Div", "Nand", "Halt",
             "Alloc", "Free", "Output", "Input", "LoadProgram", "Mov">>

parse(v) ==
    LET code == v \div CodeShift
        a == (v \div 64) % 8
        b == (v \div 8) % 8
        c == v % 8
    IN  IF code = 13
        THEN [op |-> "Mov", a |-> (v \div MovShift) % 8, b |-> b, c |-> c,
              val |-> v % MovShift]
        ELSE IF code < 13
        THEN [op |-> OpNames[code + 1], a |-> a, b |-> b, c |-> c, val |-> 0]
        ELSE [op |-> ErrOpCode, a |-> a, b |-> b, c |-> c, val |-> code]

\* the instruction words the programs of the model are written with
Enc(code, a, b, c) == code * CodeShift + a * 64 + b * 8 + c
EncMov(a, val) == 13 * CodeShift + a * MovShift + val

(***************************************************************************)
(* Arithmetic on words.                                                    *)
(***************************************************************************)
wrapping_add(x, y) == (x + y) % WordMod
\* u32::saturating_mul in place of wrapping_mul
saturating_mul(x, y) == IF x * y > U32_MAX THEN U32_MAX ELSE x * y

wrapping_mul(x, y) == (x * y) % WordMod
wrapping_div(x, y) == x \div y

RECURSIVE BitAnd(_, _, _)
BitAnd(x, y, n) ==
    IF n = 0 THEN 0
    ELSE (IF x % 2 = 1 /\ y % 2 = 1 THEN 1 ELSE 0) + 2 * BitAnd(x \div 2, y \div 2, n - 1)

\* !(x & y)
Nand32(x, y) == U32_MAX - BitAnd(x, y, WordBits)

(***************************************************************************)
(* Standard input. stdin is the bytes read from it so far. read_line takes *)
(* the bytes up to and including the next '\n', or up to the end of the    *)
(* stream, and fails unless they are UTF-8; input holds the characters of  *)
(* the line not yet consumed, each as its code point.                      *)
(***************************************************************************)
NewLine == {10}
StdinBytes == NewLine \cup {65, 195, 169}

\* the lines of k bytes read_line can return: a '\n' only as the last byte
LinesOf(k) == {l \in SeqsOf(StdinBytes, k) : \A i \in 1 .. k - 1 : l[i] \notin NewLine}

\* the stream has ended once a line came back without its '\n'
AtEof == stdin # <<>> /\ stdin[Len(stdin)] \notin NewLine

Lines == IF AtEof THEN {<<>>}
         ELSE {<<>>} \cup UNION {LinesOf(k) : k \in 1 .. MaxStdin - Len(stdin)}

\* String::from_utf8 on the bytes of a line: the characters, each as its code
\* point, or not ok (sequences of one and two bytes; StdinBytes holds no lead
\* byte of a longer one)
RECURSIVE Utf8Chars(_)
Utf8Chars(bytes) ==
    IF bytes = <<>> THEN [ok |-> TRUE, chars |-> <<>>]
    ELSE IF bytes[1] < 128
    THEN LET rest == Utf8Chars(Tail(bytes)) IN
         [ok |-> rest.ok, chars |-> <<bytes[1]>> \o rest.chars]
    ELSE IF /\ bytes[1] >= 194 /\ bytes[1] <= 223 /\ Len(bytes) >= 2
            /\ bytes[2] >= 128 /\ bytes[2] <= 191
    THEN LET rest == Utf8Chars(Tail(Tail(bytes))) IN
         [ok |-> rest.ok,
          chars |-> <<(bytes[1] - 192) * 64 + (bytes[2] - 128)>> \o rest.chars]
    ELSE [ok |-> FALSE, chars |-> <<>>]

(***************************************************************************)
(* Machine::run. One action per arm of the match, one for a fetch that     *)
(* panics and one for a word Op::parse rejects.                            *)
(***************************************************************************)
Fetched == read(Mem, 0, ip)
Decoded == parse(Fetched.ret)

\* the loop is about to run the arm op (steps counts its iterations)
Executing(op) ==
    /\ state = "Running"
    /\ steps < MaxSteps
    /\ Fetched.err = NoErr
    /\ Decoded.op = op

A == Decoded.a
B == Decoded.b
C == Decoded.c

\* self.ip += 1: past u32::MAX the addition panics in a build with overflow
\* checks (cargo's dev profile) and wraps in one without (the release profile)
IpChecks == IF ip = U32_MAX THEN BOOLEAN ELSE {FALSE}

Advance(checked) ==
    IF ip = U32_MAX
    THEN IF checked
         THEN /\ ip' = ip
              /\ state' = "Faulted"
              /\ err' = ErrAddOverflow
         ELSE /\ ip' = 0
              /\ UNCHANGED <<state, err>>
    ELSE /\ ip' = ip + 1
         /\ UNCHANGED <<state, err>>

\* a panic inside the arm: nothing but state and err changes
Fault(msg) ==
    /\ state' = "Faulted"
    /\ err' = msg
    /\ steps' = steps + 1
    /\ UNCHANGED <<data, free_pq, reg, ip, input, stdin, stdout, call, dirty>>

\* the arm called a method of Mem with result r and sets the registers to rg
MemStep(r, rg) ==
    IF r.err # NoErr THEN Fault(r.err)
    ELSE /\ data' = r.data
         /\ free_pq' = r.free_pq
         /\ reg' = rg
         /\ \E checked \in IpChecks : Advance(checked)
         /\ steps' = steps + 1
         /\ UNCHANGED <<input, stdin, stdout, call, dirty>>

\* the arm only sets the registers to rg
RegStep(rg) ==
    /\ reg' = rg
    /\ \E checked \in IpChecks : Advance(checked)
    /\ steps' = steps + 1
    /\ UNCHANGED <<data, free_pq, input, stdin, stdout, call, dirty>>

FetchFault ==
    /\ state = "Running"
    /\ steps < MaxSteps
    /\ Fetched.err # NoErr
    /\ Fault(Fetched.err)

ParseFault ==
    /\ Executing(ErrOpCode)
    /\ Fault(ErrOpCode)

CondMov ==
    /\ Executing("CondMov")
    /\ RegStep(IF reg[C] # 0 THEN [reg EXCEPT ![A] = reg[B]] ELSE reg)

MemRead ==
    /\ Executing("MemRead")
    /\ LET r == read(Mem, reg[B], reg[C]) IN MemStep(r, [reg EXCEPT ![A] = r.ret])

MemWrite ==
    /\ Executing("MemWrite")
    /\ MemStep(write(Mem, reg[A], reg[B], reg[C]), reg)

Add ==
    /\ Executing("Add")
    /\ RegStep([reg EXCEPT ![A] = wrapping_add(reg[B], reg[C])])

Mul ==
    /\ Executing("Mul")
    /\ RegStep([reg EXCEPT ![A] = wrapping_mul(reg[B], reg[C])])

Div ==
    /\ Executing("Div")
    /\ IF reg[C] = 0 THEN Fault(ErrDivZero)
       ELSE RegStep([reg EXCEPT ![A] = wrapping_div(reg[B], reg[C])])

Nand ==
    /\ Executing("Nand")
    /\ RegStep([reg EXCEPT ![A] = Nand32(reg[B], reg[C])])

Halt ==
    /\ Executing("Halt")
    /\ state' = "Halted"
    /\ steps' = steps + 1
    /\ UNCHANGED <<data, free_pq, reg, ip, input, stdin, stdout, err, call, dirty>>

Alloc ==
    /\ Executing("Alloc")
    /\ LET r == alloc(Mem, reg[C]) IN MemStep(r, [reg EXCEPT ![B] = r.ret])

Free ==
    /\ Executing("Free")
    /\ MemStep(free(Mem, reg[C]), reg)

Output ==
    /\ Executing("Output")
    /\ IF reg[C] > 255 THEN Fault(ErrOutput)
       ELSE /\ stdout' = Append(stdout, reg[C])
            /\ \E checked \in IpChecks : Advance(checked)
            /\ steps' = steps + 1
            /\ UNCHANGED <<data, free_pq, reg, input, stdin, call, dirty>>

Input ==
    /\ Executing("Input")
    /\ \E line \in (IF input = <<>> THEN Lines ELSE {<<>>}) :
          LET utf8 == Utf8Chars(line)
              buf == input \o utf8.chars
          IN  IF ~utf8.ok
              THEN /\ stdin' = stdin \o line
                   /\ state' = "Faulted"
                   /\ err' = ErrUtf8
                   /\ steps' = steps + 1
                   /\ UNCHANGED <<data, free_pq, reg, ip, input, stdout, call, dirty>>
              ELSE IF buf = <<>>
              THEN /\ stdout' = Append(stdout, 10)
                   /\ state' = "Halted"
                   /\ steps' = steps + 1
                   /\ UNCHANGED <<data, free_pq, reg, ip, input, stdin, err, call, dirty>>
              ELSE /\ stdin' = stdin \o line
                   /\ input' = Tail(buf)
                   /\ reg' = [reg EXCEPT ![C] = buf[1]]
                   /\ \E checked \in IpChecks : Advance(checked)
                   /\ steps' = steps + 1
                   /\ UNCHANGED <<data, free_pq, stdout, call, dirty>>

\* LoadProgram without its continue: the finger is reg[C] and then advanced by 1
LoadProgramPostInc ==
    /\ Executing("LoadProgram")
    /\ LET r == copy_to_zero(Mem, reg[B]) IN
       IF r.err # NoErr THEN Fault(r.err)
       ELSE /\ data' = r.data
            /\ free_pq' = r.free_pq
            /\ ip' = (reg[C] + 1) % WordMod
            /\ steps' = steps + 1
            /\ UNCHANGED <<reg, input, stdin, stdout, state, err, call, dirty>>

LoadProgram ==
    /\ Executing("LoadProgram")
    /\ LET r == copy_to_zero(Mem, reg[B]) IN
       IF r.err # NoErr THEN Fault(r.err)
       ELSE /\ data' = r.data
            /\ free_pq' = r.free_pq
            /\ ip' = reg[C]
            /\ steps' = steps + 1
            /\ UNCHANGED <<reg, input, stdin, stdout, state, err, call, dirty>>

Mov ==
    /\ Executing("Mov")
    /\ RegStep([reg EXCEPT ![A] = Decoded.val])

(***************************************************************************)
(* The programs the machine is loaded with: every program of at most       *)
(* MaxProg words over a vocabulary that holds each operator, three longer   *)
(* ones, the echo of one byte and a loop of one word.                      *)
(***************************************************************************)
Instrs ==
    { EncMov(1, 1),           \* r1 := 1
      Enc(6, 3, 1, 1),        \* r3 := !(r1 & r1)
      Enc(0, 2, 3, 1),        \* if r1 != 0 then r2 := r3
      Enc(1, 3, 2, 1),        \* r3 := read(r2, r1)
      Enc(2, 2, 0, 3),        \* write(r2, r0, r3)
      Enc(3, 3, 3, 1),        \* r3 := r3 + r1
      Enc(4, 3, 3, 3),        \* r3 := r3 * r3
      Enc(5, 3, 3, 1),        \* r3 := r3 / r1
      Enc(7, 0, 0, 0),        \* halt
      Enc(8, 0, 2, 1),        \* r2 := alloc(r1)
      Enc(9, 0, 0, 2),        \* free(r2)
      Enc(10, 0, 0, 1),       \* output r1
      Enc(11, 0, 0, 1),       \* input r1
      Enc(12, 0, 2, 0),       \* load array r2, finger := r0
      Enc(12, 0, 0, 3),       \* load array r0, finger := r3
      Enc(14, 0, 0, 0) }      \* no operator

\* a program as long as the offset range: it jumps to its last word, x
WrapProg(x) ==
    [i \in 1 .. WordMod |->
        IF i = 1 THEN Enc(6, 3, 1, 1)
        ELSE IF i = 2 THEN Enc(12, 0, 0, 3)
        ELSE IF i = WordMod THEN x
        ELSE 0]

\* a program that allocates an array of one word, stores the word x in it and
\* loads it: x is then the program
CloneProg(x) ==
    << EncMov(1, 6),          \* r1 := 6
       Enc(1, 3, 0, 1),       \* r3 := read(r0, r1), the word x
       EncMov(1, 1),          \* r1 := 1
       Enc(8, 0, 2, 1),       \* r2 := alloc(r1)
       Enc(2, 2, 0, 3),       \* write(r2, r0, r3)
       Enc(12, 0, 2, 0),      \* load array r2, finger := r0
       x >>

\* the program Input r1; Output r1; Halt
EchoProg == <<Enc(11, 0, 0, 1), Enc(10, 0, 0, 1), Enc(7, 0, 0, 0)>>

\* the program of one word that loads array r0 and sets the finger to r0
LoopProg == <<Enc(12, 0, 0, 0)>>

Payloads ==
    { Enc(2, 2, 0, 1),        \* write(r2, r0, r1)
      Enc(2, 0, 0, 1),        \* write(r0, r0, r1)
      Enc(9, 0, 0, 2) }       \* free(r2)

Programs ==
    UNION {SeqsOf(Instrs, n) : n \in 0 .. MaxProg}
        \cup {WrapProg(x) : x \in {Enc(0, 0, 0, 0), EncMov(1, 1), Enc(7, 0, 0, 0)}}
        \cup {CloneProg(x) : x \in Payloads}
        \cup {EchoProg, LoopProg}

\* Machine::load
Init ==
    /\ \E prog \in Programs :
          /\ data = init(prog).data
          /\ free_pq = init(prog).free_pq
    /\ reg = [r \in 0 .. 7 |-> 0]
    /\ ip = 0
    /\ input = <<>>
    /\ stdin = <<>>
    /\ stdout = <<>>
    /\ steps = 0
    /\ state = "Running"
    /\ err = NoErr
    /\ call = Args("init", 0, 0, 0)
    /\ dirty = {}

Next ==
    \/ FetchFault
    \/ ParseFault
    \/ CondMov
    \/ MemRead
    \/ MemWrite
    \/ Add
    \/ Mul
    \/ Div
    \/ Nand
    \/ Halt
    \/ Alloc
    \/ Free
    \/ Output
    \/ Input
    \/ LoadProgram
    \/ Mov

Spec == Init /\ [][Next]_vars

(***************************************************************************)
(* Properties of Mem, stated of its callers' calls: call is the last call  *)
(* made and its return value, err its panic; in a step, call' is the call  *)
(* the step makes, on the store data, free_pq.                             *)
(***************************************************************************)
Pool == BagToSet(free_pq)
Live(d, a) == a < Len(d) /\ d[a + 1].some
IsRetired(d, a) == a < Len(d) /\ ~d[a + 1].some

\* C1: an alloc that returns gives the smallest ID of the recycle pool if the
\* pool is not empty, and otherwise len(), the smallest ID not yet issued.
C1_AllocReturnsSmallest ==
    [][(call'.op = "alloc" /\ err' = NoErr) =>
          IF Pool # {}
          THEN call'.ret \in Pool /\ \A x \in Pool : call'.ret <= x
          ELSE call'.ret = Len(data) /\ ~Live(data, call'.ret) /\ call'.ret \notin Pool]_vars

\* alloc has returned the retired ID 1 and left the retired ID 2 in the pool
C1_ReusedSmallest == call.op = "alloc" /\ err = NoErr /\ call.ret = 1 /\ 2 \in Pool

\* C2: right after alloc(size) returns id, read(id, k) returns 0 for every
\* k < size, also when id is a retired ID whose array held a non-zero word.
C2_AllocZeroFilled ==
    (call.op = "alloc" /\ err = NoErr) =>
        \A k \in 0 .. call.val - 1 :
            LET r == read(Mem, call.ret, k) IN r.err = NoErr /\ r.ret = 0

\* alloc has reissued an ID that was freed while its array held a non-zero word
C2_ReusedDirty == call.op = "alloc" /\ err = NoErr /\ call.val >= 1 /\ call.ret \in dirty

\* C3: on a store made by init, ID 0 is bound to an array in every state, is
\* never in the recycle pool and is never returned by alloc; free(0) panics and
\* leaves the store as it was.
C3_ZeroAlwaysLive ==
    /\ [](/\ Live(data, 0)
          /\ 0 \notin Pool
          /\ (call.op = "alloc" /\ err = NoErr) => call.ret # 0)
    /\ [][(call'.op = "free" /\ call'.addr = 0) =>
             /\ state' = "Faulted"
             /\ data' = data
             /\ free_pq' = free_pq]_vars

\* free(0) has panicked on a store with a retired ID
C3_FreeZeroFaulted ==
    call.op = "free" /\ call.addr = 0 /\ state = "Faulted" /\ Pool # {}

\* C9: on a store made by new, free of a live ID retires it, and on a retired ID
\* read and write panic with "has been deallocated", free with "already free",
\* and copy_to_zero panics: for every ID alloc returns, the first (0) included.
C9_RetiredAccessFaults ==
    [][/\ (call'.op = "free" /\ Live(data, call'.addr)) =>
              err' = NoErr /\ IsRetired(data', call'.addr)
       /\ IsRetired(data, call'.addr) =>
              /\ call'.op = "read" => err' = ErrReadDealloc
              /\ call'.op = "write" => err' = ErrWriteDealloc
              /\ call'.op = "free" => err' = ErrFreeAlready
              /\ call'.op = "copy_to_zero" => err' = ErrCopyFreed]_vars

\* C10: read, write, free and copy_to_zero of an ID never issued (id >= len())
\* panic with the "unallocated" / "has not been allocated" message and leave the
\* store as it was, free(0) on an empty store included.
C10_NeverIssuedFaults ==
    [][(call'.op \in {"read", "write", "free", "copy_to_zero"} /\ call'.addr >= len(Mem)) =>
          /\ state' = "Faulted"
          /\ data' = data
          /\ free_pq' = free_pq
          /\ call'.op = "read" => err' = ErrReadUnalloc
          /\ call'.op = "write" => err' = ErrWriteUnalloc
          /\ call'.op = "free" => err' = ErrFreeUnalloc
          /\ call'.op = "copy_to_zero" => err' = ErrCopyUnalloc]_vars

(***************************************************************************)
(* Properties of Machine::run, stated of the steps of its loop: in a step, *)
(* Decoded is the instruction the step runs on the registers reg.          *)
(***************************************************************************)
\* C4: Input with stdin at its end sets reg[C] to all ones, leaves the machine
\* running and advances the finger by 1; so Input r1; Output r1; Halt on an
\* empty stdin ends in the panic of Output, not in a halt.
C4_EofContinues ==
    /\ [][(Executing("Input") /\ input = <<>> /\ stdin' = stdin) =>
             /\ reg' = [reg EXCEPT ![C] = U32_MAX]
             /\ state' = "Running"
             /\ ip' = (ip + 1) % WordMod]_vars
    /\ []((data[1].v = into_boxed_slice(EchoProg) /\ stdin = <<>> /\ state # "Running") =>
             (state = "Faulted" /\ err = ErrOutput))

\* the arms that have no panic of their own
NoPanicOps == {"CondMov", "Add", "Mul", "Nand", "Mov"}

\* C5: after an instruction other than LoadProgram that does not end the run
\* the finger is the old finger + 1 modulo 2^WordBits, whatever the registers
\* and the memory hold; at the finger u32::MAX it wraps to 0 and does not panic.
C5_FingerAdvances ==
    [][(Executing(Decoded.op) /\ Decoded.op \notin {"LoadProgram", "Halt", ErrOpCode}) =>
          /\ state' = "Running" => ip' = (ip + 1) % WordMod
          /\ (ip = U32_MAX /\ Decoded.op \in NoPanicOps) =>
                 (state' = "Running" /\ ip' = 0)]_vars

\* C6: LoadProgram with reg[B] = 0 changes nothing but the finger, which
\* becomes reg[C]: array 0 and every other array, the recycle pool and the
\* registers are as before.
C6_LoadSelfIdentity ==
    [][(Executing("LoadProgram") /\ reg[B] = 0) =>
          /\ data' = data
          /\ free_pq' = free_pq
          /\ reg' = reg
          /\ ip' = reg[C]
          /\ state' = "Running"
          /\ UNCHANGED <<input, stdin, stdout, err>>]_vars

\* LoadProgram r0, r3 has sent the finger to the last word of a program as long
\* as the offset range
C6_JumpedInPlace ==
    /\ state = "Running"
    /\ steps = 2
    /\ ip = U32_MAX
    /\ data[1].v = into_boxed_slice(WrapProg(0))

\* C7: LoadProgram with reg[B] = b # 0 makes array 0 equal to array b word for
\* word and leaves array b (still live) and every other array as they were; a
\* later write changes no array but the one it names, and a later free leaves
\* array 0 live and as it was.
C7_CloneIndependent ==
    [][/\ (Executing("LoadProgram") /\ reg[B] # 0 /\ state' = "Running") =>
              /\ Live(data, reg[B])
              /\ data'[1] = data[reg[B] + 1]
              /\ Len(data') = Len(data)
              /\ \A i \in 2 .. Len(data) : data'[i] = data[i]
       /\ (Executing("MemWrite") /\ state' = "Running") =>
              /\ Len(data') = Len(data)
              /\ \A i \in 1 .. Len(data) : i # reg[A] + 1 => data'[i] = data[i]
       /\ (Executing("Free") /\ state' = "Running") =>
              /\ data[1].some
              /\ data'[1] = data[1]]_vars

\* the program cloned from array 1 has written the word 1 to array 1: array 0
\* still holds the instruction
C7_WroteSourceAfterClone ==
    /\ state = "Running"
    /\ data = <<Some(into_boxed_slice(<<Enc(2, 2, 0, 1)>>)), Some(into_boxed_slice(<<1>>))>>

\* C8: a read or a write of a live array at an offset >= its length panics with
\* the out-of-bounds message, and the write changes no word; so does the fetch
\* of the instruction when the finger is at or past the end of array 0.
C8_BoundsEnforced ==
    [][(state = "Running" /\ steps < MaxSteps) =>
          /\ ip >= data[1].v.len =>
                 /\ state' = "Faulted"
                 /\ err' = ErrReadBounds
                 /\ UNCHANGED <<data, free_pq, reg, ip, stdout>>
          /\ (/\ Executing("MemRead")
              /\ Live(data, reg[B])
              /\ reg[C] >= data[reg[B] + 1].v.len) =>
                 /\ state' = "Faulted"
                 /\ err' = ErrReadBounds
                 /\ UNCHANGED <<data, free_pq, reg, ip, stdout>>
          /\ (/\ Executing("MemWrite")
              /\ Live(data, reg[A])
              /\ reg[B] >= data[reg[A] + 1].v.len) =>
                 /\ state' = "Faulted"
                 /\ err' = ErrWriteBounds
                 /\ UNCHANGED <<data, free_pq, reg, ip, stdout>>]_vars

\* MemRead has panicked at offset 0 of an array of no words
C8_ReadOfEmptyFaulted ==
    /\ state = "Faulted"
    /\ err = ErrReadBounds
    /\ Fetched.err = NoErr
    /\ Decoded.op = "MemRead"
    /\ Live(data, reg[B])
    /\ data[reg[B] + 1].v.len = 0
    /\ reg[C] = 0

(***************************************************************************)
(* Further properties of Mem.                                              *)
(***************************************************************************)
\* C11: on a store made by new, an alloc with an empty recycle pool returns
\* len() and raises len() by 1; an alloc with a retired ID to reuse leaves len()
\* as it was; free of a live ID (every live ID there was returned by alloc, the
\* first, 0, included) returns and leaves len() as it was.
C11_LenCountsIssued ==
    [][/\ (call'.op = "alloc" /\ Pool = {}) =>
              /\ err' = NoErr
              /\ call'.ret = len(Mem)
              /\ Len(data') = Len(data) + 1
       /\ (call'.op = "alloc" /\ Pool # {}) =>
              /\ err' = NoErr
              /\ Len(data') = Len(data)
       /\ (call'.op = "free" /\ Live(data, call'.addr)) =>
              /\ err' = NoErr
              /\ Len(data') = Len(data)]_vars

\* the cells of array a of store d other than the one at offset off
OtherCells(d, a, off) == [o \in (0 .. d[a + 1].v.len - 1) \ {off} |-> WordAt(d[a + 1].v, o)]

\* C12: a write to a live id at an offset below its array's length returns, and
\* then read(id, off) returns the word written; every other cell of the array,
\* the length of every array, every other array, the recycle pool and len() are
\* as before. A read changes nothing in the store.
C12_WriteReadRoundTrip ==
    [][/\ (/\ call'.op = "write"
           /\ Live(data, call'.addr)
           /\ call'.offset < data[call'.addr + 1].v.len) =>
              /\ err' = NoErr
              /\ LET r == read([data |-> data', free_pq |-> free_pq'], call'.addr, call'.offset)
                 IN  r.err = NoErr /\ r.ret = call'.val
              /\ OtherCells(data', call'.addr, call'.offset)
                     = OtherCells(data, call'.addr, call'.offset)
              /\ Len(data') = Len(data)
              /\ \A i \in 1 .. Len(data) :
                     /\ data'[i].some = data[i].some
                     /\ data'[i].v.len = data[i].v.len
                     /\ i # call'.addr + 1 => data'[i] = data[i]
              /\ free_pq' = free_pq
       /\ call'.op = "read" => (data' = data /\ free_pq' = free_pq)]_vars

\* a read has returned the non-zero word written to the middle of an allocated
\* array whose other words are still zero, next to a program with non-zero words
C12_ReadBackWritten ==
    /\ call.op = "read"
    /\ err = NoErr
    /\ call.addr = 1
    /\ call.offset = 1
    /\ call.ret = U32_MAX
    /\ Len(data) = 2
    /\ WordAt(data[2].v, 0) = 0
    /\ WordAt(data[2].v, 2) = 0
    /\ HasNonZero(data[1].v)

(***************************************************************************)
(* Further properties of Machine::run.                                     *)
(***************************************************************************)
\* bit i of the word x
Bit(x, i) == (x \div Pow2(i)) % 2

\* the step changes no register but reg[A], no array and not the recycle pool
OnlyRegA ==
    /\ \A r \in 0 .. 7 : r # A => reg'[r] = reg[r]
    /\ data' = data
    /\ free_pq' = free_pq

C14_StdoutIsOutputTrace ==
    /\ [][/\ (Executing("Output") /\ reg[C] <= 255) => stdout' = Append(stdout, reg[C])
          /\ (Executing("Output") /\ reg[C] > 255) =>
                 (state' = "Faulted" /\ err' = ErrOutput /\ stdout' = stdout)
          /\ ~Executing("Output") => stdout' = stdout]_vars
    /\ [](\A i \in 1 .. Len(stdout) : stdout[i] <= 255)

\* C15: the characters read and not yet consumed are the last bytes read from
\* stdin, one per byte, and an Input that is not at the end of stdin leaves the
\* machine running with reg[C] the first byte of stdin not yet consumed, a value
\* <= 255: so the k-th Input takes the k-th byte, whatever the bytes are.
C15_InputByteAccurate ==
    /\ [](/\ Len(input) <= Len(stdin)
          /\ input = SubSeq(stdin, Len(stdin) - Len(input) + 1, Len(stdin)))
    /\ [][(Executing("Input") /\ (input # <<>> \/ stdin' # stdin)) =>
             /\ state' = "Running"
             /\ reg'[C] = stdin'[Len(stdin') - Len(input')]
             /\ reg'[C] <= 255]_vars

\* the fatal conditions of an instruction: an operator code >= 14, a division
\* by zero, an output > 255, an ID that is not live, an offset at or past the
\* end of the array, a free of array 0, an alloc with every ID issued
FatalCondition ==
    \/ ip >= data[1].v.len
    \/ Decoded.op = ErrOpCode
    \/ Decoded.op = "Div" /\ reg[C] = 0
    \/ Decoded.op = "Output" /\ reg[C] > 255
    \/ Decoded.op = "MemRead" /\ (~Live(data, reg[B]) \/ reg[C] >= data[reg[B] + 1].v.len)
    \/ Decoded.op = "MemWrite" /\ (~Live(data, reg[A]) \/ reg[B] >= data[reg[A] + 1].v.len)
    \/ Decoded.op = "Free" /\ (reg[C] = 0 \/ ~Live(data, reg[C]))
    \/ Decoded.op = "LoadProgram" /\ ~Live(data, reg[B])
    \/ Decoded.op = "Alloc" /\ Pool = {} /\ Len(data) >= U32_MAX

\* C16: the machine starts Running with the registers and the finger 0; it goes
\* from Running to Halted only by executing Halt and to Faulted only on a fatal
\* condition of the instruction; once Halted or Faulted nothing changes any more.
C16_StateMachine ==
    /\ (state = "Running" /\ ip = 0 /\ \A r \in 0 .. 7 : reg[r] = 0)
    /\ [](state \in {"Running", "Halted", "Faulted"})
    /\ [][/\ (state = "Running" /\ state' = "Halted") => Executing("Halt")
          /\ (state = "Running" /\ state' = "Faulted") => FatalCondition
          /\ state # "Running" => UNCHANGED vars]_vars

\* C17: a LoadProgram that returns leaves the finger equal to reg[C]; and the
\* machine loaded with LoopProg has, in every state, array 0 equal to LoopProg
\* and no other array, the registers and the finger 0, and is Running: it never
\* halts and never panics.
C17_LoadSetsFinger ==
    /\ [][(Executing("LoadProgram") /\ state' = "Running") => ip' = reg[C]]_vars
    /\ [](data[1].v = into_boxed_slice(LoopProg) =>
             /\ state = "Running"
             /\ ip = 0
             /\ Len(data) = 1
             /\ \A r \in 0 .. 7 : reg[r] = 0)
    /\ [][data[1].v = into_boxed_slice(LoopProg) =>
             data'[1].v = into_boxed_slice(LoopProg)]_vars

\* LoopProg has run as many iterations as the model follows and is at its start
C17_StillLooping ==
    /\ data[1].v = into_boxed_slice(LoopProg)
    /\ steps = MaxSteps
    /\ state = "Running"
    /\ ip = 0

\* C18: with the IDs 0 .. 2^WordBits - 1, an alloc returns whenever the recycle
\* pool is not empty or fewer than 2^WordBits IDs have been issued, and panics
\* only with the pool empty and all of them issued; the alloc on a store of
\* 2^WordBits - 1 IDs with an empty pool issues the largest ID, 2^WordBits - 1.
C18_ExhaustionAtFullRange ==
    [][call'.op = "alloc" =>
          /\ (Pool # {} \/ Len(data) < WordMod) => err' = NoErr
          /\ err' # NoErr => (Pool = {} /\ Len(data) = WordMod)
          /\ (Pool = {} /\ Len(data) = U32_MAX) => call'.ret = U32_MAX]_vars

\* C19: on a store made by init, in every state an ID is in the recycle pool if
\* and only if its slot holds no array, the pool holds it once, and every ID of
\* the pool is >= 1 and < len(); an alloc never returns an ID that is live.
C19_PoolIsRetiredIds ==
    /\ [](/\ \A a \in 0 .. Len(data) - 1 : a \in Pool <=> ~data[a + 1].some
          /\ \A a \in Pool : a >= 1 /\ a < len(Mem) /\ CopiesIn(a, free_pq) = 1)
    /\ [][(call'.op = "alloc" /\ err' = NoErr) => ~Live(data, call'.ret)]_vars

\* a free has left two retired IDs in the pool
C19_TwoRetired == call.op = "free" /\ err = NoErr /\ Pool = {1, 2} /\ Live(data, 0)

\* C20: on every store the callers of Mem reach and for every id, offset and
\* word, free2, read2 and write2 end as free, read and write do: the same panic
\* or none, the same word returned, the same store and recycle pool; id 0
\* included.
C20_VariantsAgree ==
    state = "Running" =>
        \A addr \in Addrs :
            /\ free2(Mem, addr) = free(Mem, addr)
            /\ \A offset \in Offsets :
                   /\ read2(Mem, addr, offset) = read(Mem, addr, offset)
                   /\ \A val \in Vals :
                          write2(Mem, addr, offset, val) = write(Mem, addr, offset, val)

====
